---- MODULE Spec2Model ----
(***************************************************************************)
(* Model of src/src/main.py: the /ws handler websocket_endpoint, the frame *)
(* decoding it performs, the module-level MediaPipe estimator `hands` and  *)
(* the classifier detect_palm.                                             *)
(*                                                                         *)
(* A text message is a sequence of one-character strings.  Bytes are       *)
(* integers 0..255.  Landmark y coordinates are small naturals: only their *)
(* order matters to the code.                                              *)
(***************************************************************************)
EXTENDS Integers, Sequences, FiniteSets, TLC

VARIABLES
    pc,             \* where the handler coroutine stands
    data,           \* local `data` of websocket_endpoint (last text received)
    img_data,       \* local `img_data` (last bytes base64 decoding returned)
    results,        \* results.multi_hand_landmarks of the last hands.process call
    palm_detected,  \* local `palm_detected` (last value detect_palm returned)
    raised,         \* exception raised while handling the current message
    token,          \* argument of the send_text call the handler is awaiting
    roi,            \* state of the module-level estimator `hands`
    nrecv,          \* history: number of messages receive_text has returned
    hist,           \* history: per received message, its send_text attempts
    wire,           \* history: tokens the client was sent, in order
    propagated      \* history: an exception left websocket_endpoint

vars == <<pc, data, img_data, results, palm_detected, raised, token, roi,
          nrecv, hist, wire, propagated>>

----------------------------------------------------------------------------
(* Bounds *)

\* messages one connection delivers before the peer goes away
MaxMsgs == 2
\* largest landmark y coordinate of the classifier's input space
MaxY == 1
\* most hands a landmark list handed to the classifier holds
MaxHands == 2

----------------------------------------------------------------------------
(* Text messages: str.split and base64.b64decode (line 70) *)

Comma == ","

\* the base64 alphabet, restricted to its first four symbols
B64Alphabet == {"A", "B", "C", "D"}

B64Index(c) == CASE c = "A" -> 0 [] c = "B" -> 1 [] c = "C" -> 2 [] c = "D" -> 3

\* str.split(','): the maximal comma-free segments, always at least one
RECURSIVE SplitFrom(_, _, _)
SplitFrom(s, i, cur) ==
    IF i > Len(s) THEN <<cur>>
    ELSE IF s[i] = Comma THEN <<cur>> \o SplitFrom(s, i + 1, <<>>)
    ELSE SplitFrom(s, i + 1, Append(cur, s[i]))

Split(s) == SplitFrom(s, 1, <<>>)

\* b64decode(validate=False) first drops every character outside the alphabet
B64Chars(s) == SelectSeq(s, LAMBDA c : c \in B64Alphabet)

\* four sextets make three bytes
QuadBytes(a, b, c, d) ==
    LET n == ((a * 64 + b) * 64 + c) * 64 + d
    IN  <<n \div 65536, (n \div 256) % 256, n % 256>>

RECURSIVE B64Bytes(_)
B64Bytes(cs) ==
    IF Len(cs) < 4 THEN <<>>
    ELSE QuadBytes(B64Index(cs[1]), B64Index(cs[2]), B64Index(cs[3]), B64Index(cs[4]))
         \o B64Bytes(SubSeq(cs, 5, Len(cs)))

\* base64.b64decode(s): bytes, or binascii.Error when the data characters do
\* not fill whole quads (the model's alphabet has no padding character)
B64DecodeOk(s) == Len(B64Chars(s)) % 4 = 0
B64Decode(s) == B64Bytes(B64Chars(s))

----------------------------------------------------------------------------
(* Images: Image.open, np.array, cv2.cvtColor (lines 71-74) *)

Landmarks(t, i, p, w) == [thumb |-> t, index |-> i, pinky |-> p, wrist |-> w]

\* a hand visible in a picture: where it is, how confident the estimator's
\* models are about it (in tenths), and the landmarks they localise
Hand(pos, conf, lm) == [pos |-> pos, conf |-> conf, lm |-> lm]

OpenPalm == Landmarks(0, 0, 0, 1)
Fist     == Landmarks(1, 1, 0, 1)

NotAnImage == [mode |-> "none", hands |-> <<>>]

\* The images of the model: what Image.open makes of a byte string.  Byte
\* strings outside the table are no image (UnidentifiedImageError).
Picture(bytes) ==
    CASE bytes = <<4, 0, 0>>  -> [mode |-> "RGB", hands |-> <<Hand("left", 9, OpenPalm)>>]
      [] bytes = <<4, 0, 1>>  -> [mode |-> "RGB", hands |-> <<Hand("right", 9, OpenPalm)>>]
      [] bytes = <<4, 0, 2>>  -> [mode |-> "RGB", hands |-> <<Hand("left", 9, Fist)>>]
      [] bytes = <<4, 0, 3>>  -> [mode |-> "RGB", hands |-> <<>>]
      [] bytes = <<4, 16, 0>> -> [mode |-> "RGB",
                                  hands |-> <<Hand("left", 9, Fist), Hand("right", 9, OpenPalm)>>]
      [] bytes = <<4, 16, 1>> -> [mode |-> "RGB", hands |-> <<Hand("left", 5, OpenPalm)>>]
      [] bytes = <<8, 0, 0>>  -> [mode |-> "L", hands |-> <<>>]
      [] OTHER -> NotAnImage

\* cv2.cvtColor(np.array(img), COLOR_RGB2BGR) needs a 3 or 4 channel array;
\* a single-channel image makes it raise cv2.error
ConvertsToBGR(pic) == pic.mode = "RGB"

----------------------------------------------------------------------------
(* The estimator `hands` (lines 22-28) and hands.process (line 35) *)

static_image_mode == FALSE
max_num_hands == 1
\* confidences in tenths: 0.7
min_detection_confidence == 7
min_tracking_confidence == 7

NoRoi == "none"

Take(s, n) == SubSeq(s, 1, IF Len(s) < n THEN Len(s) ELSE n)

\* hands.process(image) with the estimator in state r.  In video mode
\* (static_image_mode=False) the palm detector runs only while no hand is
\* being tracked; otherwise the landmark model looks where the hand was in
\* the previous image and, when it is no longer there, reports no hand and
\* forgets its region.  Returns the landmark list and the next state.
HandsProcess(scene, r) ==
    LET detected == SelectSeq(scene, LAMBDA h : h.conf >= min_detection_confidence)
        tracked  == SelectSeq(scene, LAMBDA h : h.pos = r /\ h.conf >= min_tracking_confidence)
        found    == IF static_image_mode \/ r = NoRoi THEN detected ELSE tracked
        kept     == Take(found, max_num_hands)
    IN  [results |-> [k \in DOMAIN kept |-> kept[k].lm],
         roi     |-> IF static_image_mode \/ kept = <<>> THEN NoRoi ELSE kept[1].pos]

----------------------------------------------------------------------------
(* detect_palm (lines 30-57) *)

\* faulty variant: a pinky tip level with the wrist counts as extended
fingers_extended_PinkyLevel(hand) ==
    /\ hand.thumb < hand.wrist
    /\ hand.index < hand.wrist
    /\ hand.pinky <= hand.wrist

\* lines 49-53
fingers_extended(hand) ==
    /\ hand.thumb < hand.wrist
    /\ hand.index < hand.wrist
    /\ hand.pinky < hand.wrist

\* lines 37-57: the verdict for a landmark list
PalmVerdict(lms) ==
    IF lms # <<>> THEN fingers_extended(lms[1]) ELSE FALSE

----------------------------------------------------------------------------
(* One iteration's synchronous part: lines 70-77 *)

\* line 70: data.split(',')[1], defined when split returns two parts or more
Payload(d) == Split(d)[2]

\* Lines 70-77 on message d, with the estimator in state r.  A local keeps
\* its previous value when an exception is raised before its assignment.
HandleFrame(d, old, r) ==
    LET keep(exc, bytes) ==
            [raised |-> exc, img_data |-> bytes, results |-> old.results,
             palm_detected |-> old.palm_detected, roi |-> r]
    IN  IF Len(Split(d)) < 2 THEN keep("IndexError", old.img_data)
        ELSE IF ~B64DecodeOk(Payload(d)) THEN keep("binascii.Error", old.img_data)
        ELSE LET bytes == B64Decode(Payload(d))
                 pic   == Picture(bytes)
             IN  IF pic = NotAnImage THEN keep("UnidentifiedImageError", bytes)
                 ELSE IF ~ConvertsToBGR(pic) THEN keep("cv2.error", bytes)
                 ELSE LET out == HandsProcess(pic.hands, r)
                      IN  [raised |-> "none", img_data |-> bytes,
                           results |-> out.results,
                           palm_detected |-> PalmVerdict(out.results),
                           roi |-> out.roi]

\* faulty variant: the two verdict tokens exchanged
VerdictToken_Swapped(pd) == IF pd THEN "wait" ELSE "start"

\* line 80
VerdictToken(pd) == IF pd THEN "start" ELSE "wait"

\* faulty variant: no inner try, an exception of lines 70-77 ends the loop
AwaitedSend_Closing(exc) == IF exc = "none" THEN "send_verdict" ELSE "closed"

\* faulty variant: the inner except sends nothing and the loop continues
AwaitedSend_Skipping(exc) == IF exc = "none" THEN "send_verdict" ELSE "receive"

\* lines 80-84: the send_text the handler awaits once lines 70-77 have run,
\* the one of line 80 or, when they raised, the one of line 84
AwaitedSend(exc) == IF exc = "none" THEN "send_verdict" ELSE "send_error"

----------------------------------------------------------------------------
(* The messages a client sends in the model *)

Header == <<":">>

Quads == { <<"B", "A", "A", "A">>, <<"B", "A", "A", "B">>, <<"B", "A", "A", "C">>,
           <<"B", "A", "A", "D">>, <<"B", "B", "A", "A">>, <<"B", "B", "A", "B">>,
           <<"C", "A", "A", "A">>, <<"A", "A", "A", "A">> }

Segments == Quads \cup { <<>>, <<"A", "A">> }

FewSegments == { <<>>, <<"A", "A">>, <<"B", "A", "A", "A">>, <<"B", "A", "A", "D">> }

NoCommaMessages == { <<>>, Header, <<"B", "A", "A", "A">> }
OneCommaMessages == { Header \o <<Comma>> \o p : p \in Segments }
TwoCommaMessages == { Header \o <<Comma>> \o p \o <<Comma>> \o q :
                          p \in FewSegments, q \in FewSegments }

Messages == NoCommaMessages \cup OneCommaMessages \cup TwoCommaMessages

----------------------------------------------------------------------------
(* websocket_endpoint (lines 59-87) *)

Locals == [img_data |-> img_data, results |-> results, palm_detected |-> palm_detected]

Attempt(ok) == [hist EXCEPT ![nrecv] = Append(@, [token |-> token, ok |-> ok])]

Delivered == Append(wire, [msg |-> nrecv, token |-> token])

Init ==
    /\ pc = "accept"
    /\ data = <<>>
    /\ img_data = <<>>
    /\ results = <<>>
    /\ palm_detected = FALSE
    /\ raised = "none"
    /\ token = "none"
    /\ roi = NoRoi
    /\ nrecv = 0
    /\ hist = <<>>
    /\ wire = <<>>
    /\ propagated = FALSE

\* line 61: accept() returns; the session is open
Accept ==
    /\ pc = "accept"
    /\ pc' = "receive"
    /\ UNCHANGED <<data, img_data, results, palm_detected, raised, token, roi,
                   nrecv, hist, wire, propagated>>

\* line 61: accept() raises, outside every try block
AcceptRaises ==
    /\ pc = "accept"
    /\ pc' = "aborted"
    /\ propagated' = TRUE
    /\ UNCHANGED <<data, img_data, results, palm_detected, raised, token, roi,
                   nrecv, hist, wire>>

\* lines 66-80 and 82-84 up to the awaited send_text: receive_text returns m,
\* the frame is handled without yielding, and the handler awaits the send of
\* the verdict or, after an exception, of "error"
ReceiveFrame(m) ==
    /\ pc = "receive"
    /\ nrecv < MaxMsgs
    /\ LET out == HandleFrame(m, Locals, roi)
       IN  /\ data' = m
           /\ img_data' = out.img_data
           /\ results' = out.results
           /\ palm_detected' = out.palm_detected
           /\ raised' = out.raised
           /\ roi' = out.roi
           /\ token' = IF out.raised = "none" THEN VerdictToken(out.palm_detected)
                       ELSE "error"
           /\ pc' = AwaitedSend(out.raised)
    /\ nrecv' = nrecv + 1
    /\ hist' = Append(hist, <<>>)
    /\ UNCHANGED <<wire, propagated>>

\* faulty variant: no outer except, the exception leaves the handler
ReceiveRaises_Propagates ==
    /\ pc = "receive"
    /\ pc' = "closed"
    /\ propagated' = TRUE
    /\ UNCHANGED <<data, img_data, results, palm_detected, raised, token, roi,
                   nrecv, hist, wire>>

\* line 66 raises (peer closed, transport failure); lines 86-87 catch it
ReceiveRaises ==
    /\ pc = "receive"
    /\ pc' = "closed"
    /\ UNCHANGED <<data, img_data, results, palm_detected, raised, token, roi,
                   nrecv, hist, wire, propagated>>

\* faulty variant: line 84 runs after line 80 returned as well
SendVerdict_ThenError ==
    /\ pc = "send_verdict"
    /\ wire' = Delivered
    /\ hist' = Attempt(TRUE)
    /\ token' = "error"
    /\ pc' = "send_error"
    /\ UNCHANGED <<data, img_data, results, palm_detected, raised, roi, nrecv,
                   propagated>>

\* line 80 returns: the verdict token is on the wire, back to line 66
SendVerdict ==
    /\ pc = "send_verdict"
    /\ wire' = Delivered
    /\ hist' = Attempt(TRUE)
    /\ pc' = "receive"
    /\ UNCHANGED <<data, img_data, results, palm_detected, raised, token, roi,
                   nrecv, propagated>>

\* faulty variant: line 80 outside the inner try, its exception ends the loop
SendVerdictRaises_Closes ==
    /\ pc = "send_verdict"
    /\ hist' = Attempt(FALSE)
    /\ raised' = "send"
    /\ pc' = "closed"
    /\ UNCHANGED <<data, img_data, results, palm_detected, token, roi, nrecv,
                   wire, propagated>>

\* line 80 raises: the inner except (lines 82-84) catches it and sends
\* "error".  A send_text call that raises is taken to have sent nothing.
SendVerdictRaises ==
    /\ pc = "send_verdict"
    /\ hist' = Attempt(FALSE)
    /\ raised' = "send"
    /\ token' = "error"
    /\ pc' = "send_error"
    /\ UNCHANGED <<data, img_data, results, palm_detected, roi, nrecv, wire,
                   propagated>>

\* line 84 returns: "error" is on the wire, back to line 66
SendError ==
    /\ pc = "send_error"
    /\ wire' = Delivered
    /\ hist' = Attempt(TRUE)
    /\ pc' = "receive"
    /\ UNCHANGED <<data, img_data, results, palm_detected, raised, token, roi,
                   nrecv, propagated>>

\* line 84 raises inside the except clause: the outer except (lines 86-87)
\* catches it and the handler returns
SendErrorRaises ==
    /\ pc = "send_error"
    /\ hist' = Attempt(FALSE)
    /\ pc' = "closed"
    /\ UNCHANGED <<data, img_data, results, palm_detected, raised, token, roi,
                   nrecv, wire, propagated>>

\* the handler of another connection runs lines 70-77 on its own message:
\* of this connection's state it touches only the shared estimator `hands`
OtherConnectionFrame(m) ==
    /\ pc \notin {"closed", "aborted"}
    /\ roi' = HandleFrame(m, Locals, roi).roi
    /\ roi' # roi
    /\ UNCHANGED <<pc, data, img_data, results, palm_detected, raised, token,
                   nrecv, hist, wire, propagated>>

Next ==
    \/ Accept
    \/ AcceptRaises
    \/ \E m \in Messages : ReceiveFrame(m)
    \/ ReceiveRaises
    \/ SendVerdict
    \/ SendVerdictRaises
    \/ SendError
    \/ SendErrorRaises
    \/ \E m \in OneCommaMessages : OtherConnectionFrame(m)

Spec == Init /\ [][Next]_vars

----------------------------------------------------------------------------
(* detect_palm on its whole input space (lines 37-57) *)

Ys == 0 .. MaxY

LandmarkSpace == [thumb : Ys, index : Ys, pinky : Ys, wrist : Ys]

LandmarkLists == UNION { [1 .. n -> LandmarkSpace] : n \in 0 .. MaxHands }

InitClassify ==
    /\ pc = "detect_palm"
    /\ results \in LandmarkLists
    /\ data = <<>>
    /\ img_data = <<>>
    /\ palm_detected = FALSE
    /\ raised = "none"
    /\ token = "none"
    /\ roi = NoRoi
    /\ nrecv = 0
    /\ hist = <<>>
    /\ wire = <<>>
    /\ propagated = FALSE

\* lines 37-57 run on the landmark list and detect_palm returns
DetectPalmReturns ==
    /\ pc = "detect_palm"
    /\ palm_detected' = PalmVerdict(results)
    /\ pc' = "returned"
    /\ UNCHANGED <<data, img_data, results, raised, token, roi, nrecv, hist,
                   wire, propagated>>

NextClassify == DetectPalmReturns

SpecClassify == InitClassify /\ [][NextClassify]_vars

----------------------------------------------------------------------------
(* Vocabulary of the properties *)

Tokens == {"start", "wait", "error"}

Open == pc \in {"receive", "send_verdict", "send_error"}
Closed == pc = "closed"

Last(s) == s[Len(s)]

\* some send_text call made for message n raised
SendFailed(n) == \E k \in DOMAIN hist[n] : ~hist[n][k].ok

\* the handling of message n is over: its token is on the wire, or the send
\* of "error" raised
Concluded(n) ==
    /\ hist[n] # <<>>
    /\ Last(hist[n]).ok \/ Last(hist[n]).token = "error"

\* the text after the first comma of a string that has one
RECURSIVE FirstComma(_, _)
FirstComma(s, i) == IF s[i] = Comma THEN i ELSE FirstComma(s, i + 1)
HasComma(s) == \E i \in DOMAIN s : s[i] = Comma
AfterFirstComma(s) == SubSeq(s, FirstComma(s, 1) + 1, Len(s))

\* lines 70-74 raise nothing on message d
FrameDecodes(d) ==
    /\ HasComma(d)
    /\ B64DecodeOk(Payload(d))
    /\ Picture(B64Decode(Payload(d))) # NotAnImage
    /\ ConvertsToBGR(Picture(B64Decode(Payload(d))))

\* the token for frame d of a handler whose estimator has seen no frame yet
FreshToken(d) ==
    LET out == HandleFrame(d, [img_data |-> <<>>, results |-> <<>>,
                               palm_detected |-> FALSE], NoRoi)
    IN  IF out.raised = "none" THEN VerdictToken(out.palm_detected) ELSE "error"

\* the state right after lines 70-77 ran on `data`, before any send returned
JustHandled == nrecv >= 1 /\ hist[nrecv] = <<>>

----------------------------------------------------------------------------
(* C1 *)

\* C1, as stated: whenever the handler is between messages or has returned,
\* every message received so far has exactly one token on the wire, and the
\* tokens are in the order of the messages, also when a send raised.
C1_ExactlyOneTokenPerMessage ==
    pc \in {"receive", "closed"} =>
        /\ Len(wire) = nrecv
        /\ \A i \in DOMAIN wire : wire[i].msg = i

\* C1, amended: the tokens sent (send_text returned) are for received
\* messages, in the order the messages were received and never two for one
\* message; a message whose handling is over has exactly one token unless the
\* last send attempted for it raised, and then it has none, is the last
\* message received and the session is closed.
C1_AtMostOneTokenInOrder ==
    /\ \A i \in DOMAIN wire : wire[i].msg \in 1 .. nrecv
    /\ \A i, j \in DOMAIN wire : i < j => wire[i].msg < wire[j].msg
    /\ pc \in {"receive", "closed"} =>
           \A n \in 1 .. nrecv :
               \/ \E i \in DOMAIN wire : wire[i].msg = n
               \/ /\ n = nrecv
                  /\ Closed
                  /\ hist[n] # <<>>
                  /\ ~Last(hist[n]).ok

\* two messages answered in order, the first one after a send that raised
C1_Witness ==
    /\ pc = "receive"
    /\ nrecv = 2
    /\ Len(wire) = 2
    /\ wire[1].msg = 1
    /\ wire[2].msg = 2
    /\ SendFailed(1)

----------------------------------------------------------------------------
(* C2 *)

----------------------------------------------------------------------------
(* C3 *)

\* C3, as stated: once a send_text call has raised for a message, no later
\* message is received on the connection.
C3_SendFailureEndsLoop ==
    \A n \in 1 .. nrecv : SendFailed(n) => n = nrecv

----------------------------------------------------------------------------
(* C4 *)

\* C4: detect_palm returns TRUE exactly when the landmark list is not empty
\* and, in its first entry, thumb tip, index tip and pinky tip are all
\* strictly above the wrist (smaller y); it returns FALSE for the empty list
\* and when a tip is level with or below the wrist, whatever the entries
\* after the first are.
C4_Classifier ==
    pc = "returned" =>
        /\ palm_detected \in BOOLEAN
        /\ results = <<>> => ~palm_detected
        /\ results # <<>> =>
              /\ ( /\ results[1].thumb < results[1].wrist
                   /\ results[1].index < results[1].wrist
                   /\ results[1].pinky < results[1].wrist ) => palm_detected
              /\ ( \/ results[1].thumb >= results[1].wrist
                   \/ results[1].index >= results[1].wrist
                   \/ results[1].pinky >= results[1].wrist ) => ~palm_detected

\* TRUE was returned for an open first hand followed by a hand whose tips
\* are level with its wrist
C4_Witness ==
    /\ pc = "returned"
    /\ palm_detected
    /\ Len(results) = 2
    /\ results[2].thumb = results[2].wrist
    /\ results[2].pinky = results[2].wrist

----------------------------------------------------------------------------
(* C5 *)

\* C5, as stated: for a message with at least one comma, what is base64
\* decoded is the whole text after the first comma: the decoding raises
\* exactly when that text does not decode, and otherwise img_data is its
\* decoding.
C5_DecodesWholeRemainder ==
    (JustHandled /\ HasComma(data)) =>
        /\ (raised = "binascii.Error") <=> ~B64DecodeOk(AfterFirstComma(data))
        /\ B64DecodeOk(AfterFirstComma(data)) =>
               img_data = B64Decode(AfterFirstComma(data))

----------------------------------------------------------------------------
(* C6 *)

\* C6, as stated: the token chosen for a frame depends on the frame alone,
\* so it is the token a handler whose estimator has seen no frame chooses
\* for it, whatever this and other connections handled before.
C6_TokenIsFunctionOfFrame ==
    JustHandled => token = FreshToken(data)

----------------------------------------------------------------------------
(* C7 *)

\* the reason the code has for sending tok for the message in `data`
Justified(tok) ==
    /\ tok = "start" => (FrameDecodes(data) /\ raised = "none" /\ palm_detected)
    /\ tok = "wait"  => (FrameDecodes(data) /\ raised = "none" /\ ~palm_detected)
    /\ tok = "error" => raised # "none"

\* C7: every string passed to send_text and every string on the wire is
\* "start", "wait" or "error"; "start" goes out only for a message that
\* decoded and whose verdict is true, "wait" only for one that decoded and
\* whose verdict is false, "error" only after an exception was raised while
\* the message was handled.
C7_TokensJustified ==
    /\ \A i \in DOMAIN wire : wire[i].token \in Tokens
    /\ \A n \in DOMAIN hist : \A k \in DOMAIN hist[n] : hist[n][k].token \in Tokens
    /\ pc \in {"send_verdict", "send_error"} => (token \in Tokens /\ Justified(token))
    /\ \A i \in DOMAIN wire : wire[i].msg = nrecv => Justified(wire[i].token)

\* "start" went out for the first message and "error" for the second
C7_Witness ==
    /\ wire = <<[msg |-> 1, token |-> "start"], [msg |-> 2, token |-> "error"]>>
    /\ raised = "UnidentifiedImageError"

----------------------------------------------------------------------------
(* C8 *)

\* C8: when a message has been read, the handling of every earlier message
\* is over, a send having been attempted for it: at most one message of the
\* connection is in flight.
C8_OneFrameInFlight ==
    /\ \A n \in 1 .. nrecv - 1 : Concluded(n)
    /\ Cardinality({n \in 1 .. nrecv : ~Concluded(n)}) <= 1
    /\ (\E n \in 1 .. nrecv : ~Concluded(n)) => pc \in {"send_verdict", "send_error"}

\* the second message is in flight after the first took two send attempts
C8_Witness ==
    /\ nrecv = 2
    /\ Len(hist[1]) = 2
    /\ hist[2] = <<>>
    /\ pc = "send_error"

----------------------------------------------------------------------------
(* C9 *)

\* C9: the session is Open once accept returned and leaves Open only for
\* Closed; it does so only when receive_text raised or when a send_text call
\* raised, never in the step that handles a frame; a Closed session stays
\* Closed, receives and sends nothing more, and no exception has left the
\* handler.
C9_SessionStates ==
    [][ /\ (Open' /\ ~Open) => pc = "accept"
        /\ (Open /\ ~Open') =>
              /\ Closed'
              /\ \/ pc = "receive" /\ nrecv' = nrecv /\ hist' = hist
                 \/ pc = "send_error" /\ hist' = Attempt(FALSE)
        /\ nrecv' = nrecv + 1 => Open'
        /\ Closed => (Closed' /\ nrecv' = nrecv /\ hist' = hist /\ wire' = wire)
        /\ Closed' => ~propagated'
      ]_vars

\* a frame error left the session Open, then two raising sends closed it
C9_Witness ==
    /\ Closed
    /\ nrecv = 2
    /\ wire = <<[msg |-> 1, token |-> "error"]>>
    /\ hist[1] = <<[token |-> "error", ok |-> TRUE]>>
    /\ Len(hist[2]) = 2
    /\ ~propagated

----------------------------------------------------------------------------
(* C10 *)

\* C10: a message causes one or two send attempts, never more; a second one
\* is made exactly when the send of "start" or "wait" raised, and it is of
\* "error"; when that second send returns the handler is receiving again,
\* and when it raises the session is closed.
C10_SendAttempts ==
    /\ [](\A n \in DOMAIN hist :
            /\ Len(hist[n]) <= 2
            /\ Len(hist[n]) = 2 =>
                  /\ hist[n][1].token \in {"start", "wait"}
                  /\ ~hist[n][1].ok
                  /\ hist[n][2].token = "error"
            /\ (hist[n] # <<>> /\ hist[n][1].token \in {"start", "wait"}
                    /\ ~hist[n][1].ok /\ Len(hist[n]) = 1) =>
                  (n = nrecv /\ pc = "send_error" /\ token = "error"))
    /\ [][ (pc = "send_error" /\ raised = "send" /\ hist' # hist) =>
              /\ Len(hist'[nrecv]) = 2
              /\ Last(hist'[nrecv]).token = "error"
              /\ pc' = (IF Last(hist'[nrecv]).ok THEN "receive" ELSE "closed")
         ]_vars

\* the send of the verdict raised, the send of "error" returned, and the
\* handler went on to receive the next message
C10_Witness ==
    /\ nrecv = 2
    /\ Len(hist[1]) = 2
    /\ hist[1][2].ok
    /\ wire[1] = [msg |-> 1, token |-> "error"]

====
